---- MODULE Spec2Model ----
(***************************************************************************)
(* People Information Manager (src/app.py): a Streamlit session holding a  *)
(* list of person records, a form that validates and appends to it, a      *)
(* two-click "clear all", derived statistics and two exporters.            *)
(*                                                                         *)
(* Strings are sequences of tokens: user-typed text is a sequence of       *)
(* one-character strings, literal fragments of the program's messages and  *)
(* templates are single tokens.  The empty Python string "" is <<>>.       *)
(* Each action is one complete script run triggered by one widget.         *)
(***************************************************************************)
EXTENDS Integers, Sequences, FiniteSets, TLC

VARIABLES people_data,      \* st.session_state.people_data
          success_message,  \* st.session_state.success_message
          error_message,    \* st.session_state.error_message
          confirm_clear,    \* st.session_state.get('confirm_clear', False)
          last,             \* the widget interaction that triggered the latest script run
          call              \* a direct invocation of validate_input: its arguments and result

vars == <<people_data, success_message, error_message, confirm_clear, last, call>>

----
\* Bounds and input sets

MaxStore == 4

MinAge == 1
MaxAge == 120
MinValue == 1
MaxValue == 120

\* numbers the user may try to enter in the age widget
AgeInputs == { 0, 25, 30, 121 }

\* what st.number_input(min_value=1, max_value=120) hands to the script
NumberInput == { a \in AgeInputs : MinValue <= a /\ a <= MaxValue }

\* text typed into the state field (plain and padded)
StateInputs == { <<"N", "Y">>, <<" ", "N", "Y", " ">>, <<"C", "A">> }

\* what a text field left unfilled can hold
BlankInputs == { <<>>, <<" ", " ">> }

\* forms with every field filled in: <<first, last, age, job, city, state>>
FilledForms ==
    { << <<" ", "A">>, <<"B">>, a, <<"J", " ">>, <<"C">>, s >> :
        a \in NumberInput, s \in StateInputs }

\* forms with one text field left unfilled
UnfilledForms ==
    { [ f EXCEPT ![k] = b ] :
        f \in { g \in FilledForms : g[6] = <<"C", "A">> },
        k \in { 1, 2, 4, 5, 6 }, b \in BlankInputs }

FormInputs == FilledForms \cup UnfilledForms

\* arguments for direct calls of validate_input
TextArgs == { <<>>, <<" ">>, <<" ", "x", " ">> }
AgeArgs == { 0 - 5, 0, 1, 30, 120, 121 }

\* a function that returns None hands back no buffer
None == [ buffer |-> FALSE ]
NoCall == [ args |-> <<>>, done |-> FALSE, result |-> <<>> ]

----
\* String helpers

Whitespace == { " " }

RECURSIVE lstrip(_)
lstrip(s) ==
    IF s # <<>> /\ Head(s) \in Whitespace THEN lstrip(Tail(s)) ELSE s

RECURSIVE rstrip(_)
rstrip(s) ==
    IF s # <<>> /\ s[Len(s)] \in Whitespace
    THEN rstrip(SubSeq(s, 1, Len(s) - 1))
    ELSE s

strip(s) == rstrip(lstrip(s))

Digit == <<"0", "1", "2", "3", "4", "5", "6", "7", "8", "9">>

RECURSIVE str(_)
str(n) ==
    IF n < 10 THEN <<Digit[n + 1]>>
    ELSE str(n \div 10) \o <<Digit[(n % 10) + 1]>>

int(age) == age

----
\* StreamlitPeopleManager

MissingFieldMsg == <<"Please fill in all fields!">>
InvalidAgeMsg == <<"Please enter a valid age (1-120)!">>
ClearedMsg == <<"All data cleared successfully!">>

\* the f-string of add_person, with the raw (unstripped) names; the leading
\* check-mark emoji is part of the first literal fragment
AddedMsg(first_name, last_name) ==
    <<"Added ">> \o first_name \o <<" ">> \o last_name \o <<" successfully!">>

Columns == <<"First Name", "Last Name", "Age", "Job Title", "City", "State">>

Person(first_name, last_name, age, job_title, city, state) ==
    ("First Name" :> strip(first_name)) @@
    ("Last Name"  :> strip(last_name)) @@
    ("Age"        :> int(age)) @@
    ("Job Title"  :> strip(job_title)) @@
    ("City"       :> strip(city)) @@
    ("State"      :> strip(state))

\* variant: the state field is left out of the emptiness check
validate_input_skips_state(first_name, last_name, age, job_title, city, state) ==
    IF \E f \in { strip(first_name), strip(last_name), strip(job_title),
                  strip(city) } : f = <<>>
    THEN <<FALSE, MissingFieldMsg>>
    ELSE IF age < MinAge \/ age > MaxAge
         THEN <<FALSE, InvalidAgeMsg>>
         ELSE <<TRUE, <<>>>>

\* variant: the age is checked before the text fields
validate_input_age_first(first_name, last_name, age, job_title, city, state) ==
    IF age < MinAge \/ age > MaxAge
    THEN <<FALSE, InvalidAgeMsg>>
    ELSE IF \E f \in { strip(first_name), strip(last_name), strip(job_title),
                       strip(city), strip(state) } : f = <<>>
         THEN <<FALSE, MissingFieldMsg>>
         ELSE <<TRUE, <<>>>>

validate_input(first_name, last_name, age, job_title, city, state) ==
    IF \E f \in { strip(first_name), strip(last_name), strip(job_title),
                  strip(city), strip(state) } : f = <<>>
    THEN <<FALSE, MissingFieldMsg>>
    ELSE IF age < MinAge \/ age > MaxAge
         THEN <<FALSE, InvalidAgeMsg>>
         ELSE <<TRUE, <<>>>>

\* variant: a record equal to a stored one is not stored again
add_person_dedupe(data, first_name, last_name, age, job_title, city, state) ==
    LET person == Person(first_name, last_name, age, job_title, city, state)
    IN  IF \E i \in 1..Len(data) : data[i] = person THEN data
        ELSE Append(data, person)

\* variant: the new record is put at the front
add_person_prepends(data, first_name, last_name, age, job_title, city, state) ==
    <<Person(first_name, last_name, age, job_title, city, state)>> \o data

\* the list after add_person; the two messages it also sets are assigned in
\* SubmitForm, its only caller
add_person(data, first_name, last_name, age, job_title, city, state) ==
    Append(data, Person(first_name, last_name, age, job_title, city, state))

RECURSIVE SumAges(_)
SumAges(data) ==
    IF data = <<>> THEN 0 ELSE data[1]["Age"] + SumAges(Tail(data))

\* round(sum/count, 1), in tenths.  Python rounds the double to the nearest
\* tenth; an exact tie x.x5 is a representable double only for x.25 and x.75
\* (count a multiple of 4), where round-half-to-even applies.  The other ties
\* need count to be a multiple of 20, beyond the store sizes explored here.
round1(total, count) ==
    LET q == (10 * total) \div count
        r == (10 * total) % count
    IN  IF 2 * r < count THEN q
        ELSE IF 2 * r > count THEN q + 1
        ELSE IF q % 2 = 0 THEN q ELSE q + 1

\* variant: the mean is cut to one decimal instead of rounded
get_statistics_truncates(data) ==
    IF data = <<>> THEN <<0, 0, 0>>
    ELSE LET total_count == Len(data)
             unique_states == Cardinality({ data[i]["State"] : i \in 1..Len(data) })
         IN  <<total_count, (10 * SumAges(data)) \div total_count, unique_states>>

\* <<total_count, avg_age in tenths, unique_states>>
get_statistics(data) ==
    IF data = <<>> THEN <<0, 0, 0>>
    ELSE LET total_count == Len(data)
             unique_states == Cardinality({ data[i]["State"] : i \in 1..Len(data) })
         IN  <<total_count, round1(SumAges(data), total_count), unique_states>>

Row(person) == [ c \in 1..Len(Columns) |-> person[Columns[c]] ]

RECURSIVE Rows(_)
Rows(data) ==
    IF data = <<>> THEN <<>> ELSE <<Row(data[1])>> \o Rows(Tail(data))

\* variant: no early return for an empty store
create_excel_file_always(data) ==
    [ buffer |-> TRUE, sheet |-> <<Columns>> \o Rows(data) ]

\* the sheet 'People Data': header row, then one row per record
\* (column widths are cosmetic and not modelled)
create_excel_file(data) ==
    IF data = <<>> THEN None
    ELSE [ buffer |-> TRUE, sheet |-> <<Columns>> \o Rows(data) ]

Sentence(person) ==
    person["First Name"] \o <<" ">> \o person["Last Name"] \o <<", ">>
    \o str(person["Age"]) \o <<" years old, works as a ">> \o person["Job Title"]
    \o <<" and lives in ">> \o person["City"] \o <<", ">> \o person["State"] \o <<".">>

RECURSIVE Paragraphs(_)
Paragraphs(data) ==
    IF data = <<>> THEN <<>>
    ELSE <<Sentence(data[1]), <<>>>> \o Paragraphs(Tail(data))

create_word_file(data) ==
    IF data = <<>> THEN None
    ELSE [ buffer |-> TRUE, heading |-> "People Directory",
           paragraphs |-> Paragraphs(data) ]

----
\* main(): what one script run renders and does

ExportOptionsShown == people_data # <<>>

DownloadExcelOffered == ExportOptionsShown /\ create_excel_file(people_data) # None
DownloadWordOffered == ExportOptionsShown /\ create_word_file(people_data) # None
ClearOffered == ExportOptionsShown

Init ==
    /\ people_data = <<>>
    /\ success_message = <<>>
    /\ error_message = <<>>
    /\ confirm_clear = FALSE
    /\ last = "start"
    /\ call = NoCall

\* variant: a rejected submission does not store the error message
SubmitForm_drops_error(first_name, last_name, age, job_title, city, state) ==
    LET v == validate_input(first_name, last_name, age, job_title, city, state)
    IN  IF v[1]
        THEN /\ Len(people_data) < MaxStore
             /\ people_data' = add_person(people_data, first_name, last_name, age,
                                          job_title, city, state)
             /\ success_message' = AddedMsg(first_name, last_name)
             /\ error_message' = <<>>
             /\ last' = "submit_ok"
             /\ UNCHANGED <<confirm_clear, call>>
        ELSE /\ success_message' = <<>>
             /\ error_message' = <<>>
             /\ last' = "submit_rejected"
             /\ UNCHANGED <<people_data, confirm_clear, call>>

\* "Add Person" pressed with the given widget values
SubmitForm(first_name, last_name, age, job_title, city, state) ==
    LET v == validate_input(first_name, last_name, age, job_title, city, state)
    IN  IF v[1]
        THEN /\ Len(people_data) < MaxStore
             /\ people_data' = add_person(people_data, first_name, last_name, age,
                                          job_title, city, state)
             /\ success_message' = AddedMsg(first_name, last_name)
             /\ error_message' = <<>>
             /\ last' = "submit_ok"
             /\ UNCHANGED <<confirm_clear, call>>
        ELSE /\ success_message' = <<>>
             /\ error_message' = v[2]
             /\ last' = "submit_rejected"
             /\ UNCHANGED <<people_data, confirm_clear, call>>

Submit ==
    \E f \in FormInputs : SubmitForm(f[1], f[2], f[3], f[4], f[5], f[6])

\* variant: the first click already clears
ClearClick_unconfirmed ==
    /\ ClearOffered
    /\ people_data' = <<>>
    /\ success_message' = ClearedMsg
    /\ confirm_clear' = FALSE
    /\ last' = "clear_confirm"
    /\ UNCHANGED <<error_message, call>>

\* "Clear All Data" pressed
ClearClick ==
    /\ ClearOffered
    /\ IF confirm_clear
       THEN /\ people_data' = <<>>
            /\ success_message' = ClearedMsg
            /\ confirm_clear' = FALSE
            /\ last' = "clear_confirm"
            /\ UNCHANGED <<error_message, call>>
       ELSE /\ confirm_clear' = TRUE
            /\ last' = "clear_arm"
            /\ UNCHANGED <<people_data, success_message, error_message, call>>

DownloadExcel ==
    /\ DownloadExcelOffered
    /\ last' = "download_excel"
    /\ UNCHANGED <<people_data, success_message, error_message, confirm_clear, call>>

DownloadWord ==
    /\ DownloadWordOffered
    /\ last' = "download_word"
    /\ UNCHANGED <<people_data, success_message, error_message, confirm_clear, call>>

Next == Submit \/ ClearClick \/ DownloadExcel \/ DownloadWord

Spec == Init /\ [][Next]_vars

----
\* validate_input called directly on arbitrary arguments

ValidateArgs ==
    TextArgs \X TextArgs \X AgeArgs \X TextArgs \X TextArgs \X TextArgs

InitValidate ==
    /\ people_data = <<>>
    /\ success_message = <<>>
    /\ error_message = <<>>
    /\ confirm_clear = FALSE
    /\ last = "start"
    /\ \E a \in ValidateArgs : call = [ args |-> a, done |-> FALSE, result |-> <<>> ]

ValidateCall ==
    /\ ~call.done
    /\ call' = [ call EXCEPT !.done = TRUE, !.result =
                   validate_input(call.args[1], call.args[2], call.args[3],
                                  call.args[4], call.args[5], call.args[6]) ]
    /\ UNCHANGED <<people_data, success_message, error_message, confirm_clear, last>>

NextValidate == ValidateCall

SpecValidate == InitValidate /\ [][NextValidate]_vars

----
\* Vocabulary of the properties, stated without the program's own helpers

IsBlank(s) == \A i \in 1..Len(s) : s[i] = " "

TextFields == { "First Name", "Last Name", "Job Title", "City", "State" }

IsValidRecord(p) ==
    /\ \A f \in TextFields : ~IsBlank(p[f])
    /\ 1 <= p["Age"] /\ p["Age"] <= 120

AnyBlank(first_name, last_name, job_title, city, state) ==
    IsBlank(first_name) \/ IsBlank(last_name) \/ IsBlank(job_title)
        \/ IsBlank(city) \/ IsBlank(state)

ValidInput(first_name, last_name, age, job_title, city, state) ==
    /\ ~AnyBlank(first_name, last_name, job_title, city, state)
    /\ 1 <= age /\ age <= 120

IsPrefix(s, t) == Len(s) <= Len(t) /\ SubSeq(t, 1, Len(s)) = s

----
\* C1: every record in the store has its five text fields non-blank and an
\* age between 1 and 120, after any sequence of submissions, clears and exports.
C1_StoreOnlyValidated ==
    \A i \in 1..Len(people_data) : IsValidRecord(people_data[i])

C1_Witness ==
    /\ Len(people_data) >= 2
    /\ last = "submit_rejected"

\* C2: a submission of valid values is accepted and makes the store exactly
\* one record longer, whatever the store holds (duplicates included).
C2_ValidSubmitAppendsOne ==
    [][ \A f \in FormInputs :
          ( /\ ValidInput(f[1], f[2], f[3], f[4], f[5], f[6])
            /\ SubmitForm(f[1], f[2], f[3], f[4], f[5], f[6]) )
          => ( /\ last' = "submit_ok"
               /\ Len(people_data') = Len(people_data) + 1 ) ]_vars

C2_Witness ==
    /\ last = "submit_ok"
    /\ Len(people_data) >= 2
    /\ people_data[Len(people_data)] = people_data[Len(people_data) - 1]

\* C3: validate_input answers MissingField when any text field is blank,
\* whatever the age; InvalidAge when no field is blank and the age is outside
\* [1,120]; success otherwise.
C3_ValidateClassifies ==
    call.done =>
        LET a == call.args
            blank == AnyBlank(a[1], a[2], a[4], a[5], a[6])
            ageOut == a[3] < 1 \/ a[3] > 120
        IN  /\ blank => call.result = <<FALSE, MissingFieldMsg>>
            /\ (~blank /\ ageOut) => call.result = <<FALSE, InvalidAgeMsg>>
            /\ (~blank /\ ~ageOut) => call.result = <<TRUE, <<>>>>

C3_Witness ==
    /\ call.done
    /\ IsBlank(call.args[6])
    /\ call.args[3] > 120
    /\ call.result = <<FALSE, MissingFieldMsg>>

\* C4: a rejected submission leaves the store as it was and sets a non-empty
\* error message; a valid submission right after a rejected one appends that
\* record exactly once.
C4_RejectionKeepsStore ==
    [][ \A f \in FormInputs :
          SubmitForm(f[1], f[2], f[3], f[4], f[5], f[6]) =>
            IF ValidInput(f[1], f[2], f[3], f[4], f[5], f[6])
            THEN last = "submit_rejected" =>
                   people_data' = people_data \o
                     << Person(f[1], f[2], f[3], f[4], f[5], f[6]) >>
            ELSE /\ people_data' = people_data
                 /\ error_message' # <<>>
                 /\ last' = "submit_rejected" ]_vars

C4_Witness ==
    /\ last = "submit_rejected"
    /\ people_data # <<>>
    /\ error_message = MissingFieldMsg
    /\ success_message = <<>>

\* C5 (as claimed): once armed, the confirmation flag is disarmed by any form
\* submission, so the store is only ever emptied by a Clear click that directly
\* follows the arming Clear click.
C5_StaleFlagNeverClears ==
    [][ /\ last' \in { "submit_ok", "submit_rejected" } => ~confirm_clear'
        /\ (people_data # <<>> /\ people_data' = <<>>) => last = "clear_arm" ]_vars

\* C6: get_statistics gives (0, 0.0, 0) for an empty store; otherwise the
\* number of records, the mean age rounded to a nearest tenth, and the number
\* of distinct stored state strings.  Ages [30,40] give 35.0 and states
\* [NY,NY,CA] give 2.
Abs(x) == IF x < 0 THEN 0 - x ELSE x

FirstOccurrences(data) ==
    { i \in 1..Len(data) : \A j \in 1..(i - 1) : data[j]["State"] # data[i]["State"] }

StatisticsAsSpecified(data) ==
    LET st == get_statistics(data)
        n == Len(data)
    IN  IF n = 0 THEN st = <<0, 0, 0>>
        ELSE /\ st[1] = n
             /\ 2 * Abs(10 * SumAges(data) - st[2] * n) <= n
             /\ st[3] = Cardinality(FirstOccurrences(data))

ExamplePerson(age, state) ==
    Person(<<"A">>, <<"B">>, age, <<"J">>, <<"C">>, state)

C6_Statistics ==
    /\ StatisticsAsSpecified(people_data)
    /\ get_statistics(<< ExamplePerson(30, <<"N", "Y">>),
                         ExamplePerson(40, <<"N", "Y">>) >>)[2] = 350
    /\ get_statistics(<< ExamplePerson(30, <<"N", "Y">>),
                         ExamplePerson(30, <<"N", "Y">>),
                         ExamplePerson(30, <<"C", "A">>) >>)[3] = 2

\* a store whose mean age lies exactly between two tenths, with a repeated state
C6_Witness ==
    /\ Len(people_data) = 4
    /\ 2 * ((10 * SumAges(people_data)) % 4) = 4
    /\ get_statistics(people_data)[3] = 2

\* C7: a Clear click while not armed only arms the flag and keeps the store;
\* a Clear click while armed empties the store and disarms the flag, and then
\* the statistics are (0, 0.0, 0); no other action empties the store.
C7_ClearTwoClicks ==
    [][ /\ (last' \in { "clear_arm", "clear_confirm" } /\ ~confirm_clear) =>
              /\ confirm_clear'
              /\ people_data' = people_data
              /\ success_message' = success_message
              /\ error_message' = error_message
        /\ (last' \in { "clear_arm", "clear_confirm" } /\ confirm_clear) =>
              /\ people_data' = <<>>
              /\ ~confirm_clear'
              /\ get_statistics(people_data') = <<0, 0, 0>>
        /\ (people_data # <<>> /\ people_data' = <<>>) =>
              /\ last' = "clear_confirm"
              /\ confirm_clear ]_vars

C7_Witness ==
    /\ last = "clear_confirm"
    /\ people_data = <<>>
    /\ ~confirm_clear
    /\ success_message = ClearedMsg

\* C8: except for a confirmed clear, the store before an action is a prefix
\* of the store after it; the sheet rows and the document sentences follow the
\* store's order, one per record.
ExportsInOrder(data) ==
    data # <<>> =>
        LET sheet == create_excel_file(data).sheet
            paragraphs == create_word_file(data).paragraphs
        IN  /\ Len(sheet) = Len(data) + 1
            /\ sheet[1] = <<"First Name", "Last Name", "Age", "Job Title", "City", "State">>
            /\ \A i \in 1..Len(data) :
                 sheet[i + 1] = << data[i]["First Name"], data[i]["Last Name"],
                                   data[i]["Age"], data[i]["Job Title"],
                                   data[i]["City"], data[i]["State"] >>
            /\ Len(paragraphs) = 2 * Len(data)
            /\ \A i \in 1..Len(data) :
                 /\ paragraphs[2 * i - 1] = Sentence(data[i])
                 /\ paragraphs[2 * i] = <<>>

C8_OrderPreserved ==
    /\ [][ last' # "clear_confirm" => IsPrefix(people_data, people_data') ]_vars
    /\ [] ExportsInOrder(people_data)

C8_Witness ==
    /\ last = "download_word"
    /\ Len(people_data) >= 3
    /\ people_data[1] # people_data[2]
    /\ people_data[2] # people_data[3]

\* C9: each exporter returns no buffer exactly when the store is empty; a
\* download and the Clear button are offered, and used, only with a non-empty
\* store.
C9_ExportOnlyWhenNonEmpty ==
    /\ [] /\ (create_excel_file(people_data) = None) <=> (Len(people_data) = 0)
          /\ (create_word_file(people_data) = None) <=> (Len(people_data) = 0)
          /\ (DownloadExcelOffered \/ DownloadWordOffered \/ ClearOffered)
                => Len(people_data) > 0
    /\ [][ last' \in { "download_excel", "download_word", "clear_arm", "clear_confirm" }
             => Len(people_data) > 0 ]_vars

C9_Witness ==
    /\ last = "download_excel"
    /\ DownloadExcelOffered
    /\ create_excel_file(people_data).buffer

\* C10 (as claimed): the success message and the error message are never both
\* non-empty.
C10_MessagesExclusive ==
    ~(success_message # <<>> /\ error_message # <<>>)

====
